---- MODULE Spec2Model ----
(***************************************************************************)
(* A model of the go-crawler (src/main.go, the second `package main`,      *)
(* lines 227-481): the HTML link extractor ExtractLinks / NewLink /        *)
(* Link.Valid, the fetch wrapper getUrl, and the concurrent frontier loop   *)
(* of crawler with its seed goroutine and one goroutine per accepted link. *)
(*                                                                         *)
(* Strings are sequences of one-character strings, so that TrimSpace,      *)
(* ToLower and Contains are computed and not assumed.                      *)
(***************************************************************************)
EXTENDS Integers, Sequences, FiniteSets, Bags, TLC

(***************************************************************************)
(* strings (package strings)                                               *)
(***************************************************************************)

Whitespace == {" ", "\t", "\n", "\r"}

UpperAlpha == <<"A","B","C","D","E","F","G","H","I","J","K","L","M",
               "N","O","P","Q","R","S","T","U","V","W","X","Y","Z">>

LowerAlpha == <<"a","b","c","d","e","f","g","h","i","j","k","l","m",
               "n","o","p","q","r","s","t","u","v","w","x","y","z">>

LowerCh(c) ==
    IF \E i \in 1..Len(UpperAlpha) : UpperAlpha[i] = c
    THEN LowerAlpha[CHOOSE i \in 1..Len(UpperAlpha) : UpperAlpha[i] = c]
    ELSE c

\* strings.ToLower
ToLower(s) == [i \in 1..Len(s) |-> LowerCh(s[i])]

\* strings.Contains
Contains(s, sub) ==
    \E i \in 0..(Len(s) - Len(sub)) : SubSeq(s, i + 1, i + Len(sub)) = sub

RECURSIVE TrimLeft(_)
TrimLeft(s) ==
    IF s # <<>> /\ Head(s) \in Whitespace THEN TrimLeft(Tail(s)) ELSE s

RECURSIVE TrimRight(_)
TrimRight(s) ==
    IF s # <<>> /\ s[Len(s)] \in Whitespace
    THEN TrimRight(SubSeq(s, 1, Len(s) - 1))
    ELSE s

\* strings.TrimSpace
TrimSpace(s) == TrimRight(TrimLeft(s))

Javascript == <<"j","a","v","a","s","c","r","i","p","t">>

(***************************************************************************)
(* Link, Link.Valid, NewLink, ExtractLinks                                 *)
(***************************************************************************)

\* type Link struct { url, text, depth }
Link(url, text, depth) == [url |-> url, text |-> text, depth |-> depth]

\* Valid without strings.ToLower
ValidCaseSensitive(link) ==
    Len(link.text) # 0 /\ Len(link.url) # 0 /\ ~Contains(link.url, Javascript)

\* func (self Link) Valid() bool
Valid(link) ==
    IF Len(link.text) = 0
    THEN FALSE
    ELSE IF Len(link.url) = 0 \/ Contains(ToLower(link.url), Javascript)
         THEN FALSE
         ELSE TRUE

\* html.Token as ExtractLinks reads it: Type, DataAtom, Data, Attr.
\* DataAtom is "a" for an anchor tag and "" for every other token.
StartTagToken == "StartTag"
EndTagToken == "EndTag"
TextToken == "Text"
ErrorToken == "Error"

Token(type, dataAtom, data, attr) ==
    [Type |-> type, DataAtom |-> dataAtom, Data |-> data, Attr |-> attr]

Attribute(key, val) == [Key |-> key, Val |-> val]

\* the nil *html.Token
NoToken == [Type |-> "nil", DataAtom |-> "", Data |-> <<>>, Attr |-> <<>>]

\* the loop of NewLink over tag.Attr: every href overwrites link.url
RECURSIVE HrefOf(_, _)
HrefOf(attrs, url) ==
    IF attrs = <<>>
    THEN url
    ELSE HrefOf(Tail(attrs),
                IF Head(attrs).Key = "href" THEN TrimSpace(Head(attrs).Val) ELSE url)

\* func NewLink(tag html.Token, text string, depth int) Link
NewLink(tag, text, depth) == Link(HrefOf(tag.Attr, <<>>), TrimSpace(text), depth)

\* Whether the anchor end tag appends the link it built.
KeepLink(link) == Valid(link)

\* if start != nil && token.Type == html.TextToken { text = text + token.Data }
AccumulateText(st, token) ==
    IF st.start # NoToken /\ token.Type = TextToken
    THEN [st EXCEPT !.text = @ \o token.Data]
    ELSE st

\* the first start tag kept while an anchor is open
OpenAnchorKeepFirst(st, token) ==
    IF Len(token.Attr) > 0 /\ st.start = NoToken
    THEN [st EXCEPT !.start = token]
    ELSE st

\* case html.StartTagToken: if len(token.Attr) > 0 { start = &token }
OpenAnchor(st, token) ==
    IF Len(token.Attr) > 0
    THEN [st EXCEPT !.start = token]
    ELSE st

\* the anchor end tag with no start held skipped, the loop going on
OrphanEndSkip(st) == st

\* if start == nil { log.Warnf(...); return }
OrphanEnd(st) == [st EXCEPT !.stop = TRUE]

\* the end tag without `text = ""`
EmitLinkKeepText(st, depth) ==
    LET link == NewLink(st.start, st.text, depth)
    IN  [st EXCEPT !.links = IF KeepLink(link) THEN Append(@, link) ELSE @,
                   !.start = NoToken]

\* link := NewLink(*start, text, depth); if link.Valid() { append };
\* start = nil; text = ""
EmitLink(st, depth) ==
    LET link == NewLink(st.start, st.text, depth)
    IN  [st EXCEPT !.links = IF KeepLink(link) THEN Append(@, link) ELSE @,
                   !.start = NoToken,
                   !.text = <<>>]

\* case html.EndTagToken
CloseAnchor(st, depth) ==
    IF st.start = NoToken THEN OrphanEnd(st) ELSE EmitLink(st, depth)

\* One iteration of the for loop of ExtractLinks on `token`, from the loop
\* state st = [start, text, links, stop]; stop is set by the two returns.
ExtractStep(token, st, depth) ==
    IF token.Type = ErrorToken
    THEN [st EXCEPT !.stop = TRUE]
    ELSE LET st1 == AccumulateText(st, token)
         IN  IF token.DataAtom # "a"
             THEN st1
             ELSE IF token.Type = StartTagToken
                  THEN OpenAnchor(st1, token)
                  ELSE IF token.Type = EndTagToken
                       THEN CloseAnchor(st1, depth)
                       ELSE st1

\* The tokenizer yields the tokens of the body in order and an ErrorToken
\* (io.EOF) once the body is exhausted.
RECURSIVE ExtractLoop(_, _, _)
ExtractLoop(tokens, st, depth) ==
    IF st.stop \/ tokens = <<>>
    THEN st.links
    ELSE ExtractLoop(Tail(tokens), ExtractStep(Head(tokens), st, depth), depth)

\* func ExtractLinks(resp *http.Response, depth int) (links []Link)
ExtractLinks(body, depth) ==
    ExtractLoop(body,
                [start |-> NoToken, text |-> <<>>, links |-> <<>>, stop |-> FALSE],
                depth)

(***************************************************************************)
(* getUrl and the web it fetches from                                      *)
(***************************************************************************)

\* What http.Get finds at one URL: a transport error, or a response with a
\* status code and a body (the tokens html.NewTokenizer reads from it).
Page(status, body) == [err |-> FALSE, StatusCode |-> status, Body |-> body]
Unreachable == [err |-> TRUE, StatusCode |-> 0, Body |-> <<>>]

\* the nil *http.Response
NoResp == [StatusCode |-> 0, Body |-> <<>>]

\* http.Get(url): a URL the web does not serve is a transport error.
HttpGet(w, url) == IF url \in DOMAIN w THEN w[url] ELSE Unreachable

\* What getUrl returns for a response whose StatusCode is above 299: the
\* HttpGetError is built and logged, and the bare `return` hands back the
\* named results as they are: resp, and err still nil.
StatusError(got) == [resp |-> [StatusCode |-> got.StatusCode, Body |-> got.Body],
                     err |-> FALSE]

\* func getUrl(url string) (resp *http.Response, err error)
getUrl(w, url) ==
    LET got == HttpGet(w, url)
    IN  IF got.err
        THEN [resp |-> NoResp, err |-> TRUE]
        ELSE IF got.StatusCode > 299
             THEN StatusError(got)
             ELSE [resp |-> [StatusCode |-> got.StatusCode, Body |-> got.Body],
                   err |-> FALSE]

(***************************************************************************)
(* crawler: state                                                          *)
(***************************************************************************)

VARIABLES
    urls,           \* crawler's argument: the seed URLs
    maxDepth,       \* crawler's argument
    web,            \* the pages http.Get finds; fixed during one crawl
    pc,             \* the control loop: "loop" (at `for ; n > 0`) or "done"
    seedSent,       \* whether the seed goroutine's send has been received
    visited,        \* the keys of map visited (every value stored is true)
    res,            \* the result slice
    n,              \* number of pending sends
    requestTokens,  \* number of values in the buffered channel requestTokens
    workers,        \* bag of the goroutines spawned at line 367
    failed,         \* history: the links whose getUrl returned an error
    expanded        \* history: the links a goroutine was started for, in
                    \* order, each with the length of res at that moment

vars == <<urls, maxDepth, web, pc, seedSent, visited, res, n, requestTokens,
          workers, failed, expanded>>

\* make(chan struct{}, 10)
RequestTokensCap == 10

\* One goroutine `go func(link Link)`: where it is (pc), and the values it
\* will still read.  link.url is read by getUrl only and the response by
\* ExtractLinks only; each is forgotten once read, so goroutines that differ
\* only in a value that is never read again are one state.  sent counts the
\* goroutine's completed sends on frontier.
Worker(wpc, url, depth, resp, newLinks, sent) ==
    [pc |-> wpc, url |-> url, depth |-> depth, resp |-> resp,
     newLinks |-> newLinks, sent |-> sent]

\* the goroutine started with the depth of the links it will extract
SpawnDeeper(link) == Worker("getUrl", link.url, link.depth + 1, NoResp, <<>>, 0)

\* go func(link Link) {...}(link): the goroutine starts at getUrl(link.url)
Spawn(link) == Worker("getUrl", link.url, link.depth, NoResp, <<>>, 0)

WorkersAt(wpc) == {w \in BagToSet(workers) : w.pc = wpc}

\* number of goroutines at wpc, with multiplicity
CountAt(wpc) == BagCardinality([w \in WorkersAt(wpc) |-> workers[w]])

Range(seq) == {seq[i] : i \in 1..Len(seq)}

ReplaceWorker(w, w2) == (workers (-) SetToBag({w})) (+) SetToBag({w2})

(***************************************************************************)
(* crawler: the control loop                                               *)
(***************************************************************************)

\* the seed goroutine's loop, lines 336-340
RECURSIVE InitialLinks(_)
InitialLinks(us) ==
    IF us = <<>>
    THEN <<>>
    ELSE <<Link(TrimSpace(Head(us)), Head(us), 0)>> \o InitialLinks(Tail(us))

\* the lookup keyed by the anchor text instead of the url
IsVisitedByText(vis, link) == link.text \in vis

\* if visited[link.url] { continue }
IsVisited(vis, link) == link.url \in vis

\* the depth test one level late
DepthMaxedLate(link, d) == link.depth = d + 1

\* if link.depth == maxDepth { continue }
DepthMaxed(link, d) == link.depth = d

\* The body of `for _, link := range links` for one link, on the loop's
\* locals st = [visited, res, n, spawned].
VisitLink(link, st, d) ==
    IF IsVisited(st.visited, link)
    THEN st
    ELSE LET st1 == [st EXCEPT !.visited = @ \cup {link.url},
                               !.res = Append(@, link)]
         IN  IF DepthMaxed(link, d)
             THEN st1
             ELSE [st1 EXCEPT !.n = @ + 1,
                              !.spawned = @ (+) SetToBag({Spawn(link)}),
                              !.expanded = Append(@, [link |-> link,
                                                      at |-> Len(st1.res)])]

RECURSIVE RangeLinks(_, _, _)
RangeLinks(links, st, d) ==
    IF links = <<>>
    THEN st
    ELSE RangeLinks(Tail(links), VisitLink(Head(links), st, d), d)

\* The inner loop of one iteration of `for ; n > 0; n--`, run on the batch
\* `links` that `links := <-frontier` received, from the current state.
Iterate(links) ==
    RangeLinks(links,
               [visited |-> visited, res |-> res, n |-> n, spawned |-> EmptyBag,
                expanded |-> expanded],
               maxDepth)

\* links := <-frontier, the sender being the seed goroutine (line 341);
\* then the inner loop and the post statement n--
ReceiveSeed ==
    /\ pc = "loop"
    /\ n > 0
    /\ ~seedSent
    /\ seedSent' = TRUE
    /\ LET st == Iterate(InitialLinks(urls))
       IN  /\ visited' = st.visited
           /\ res' = st.res
           /\ n' = st.n - 1
           /\ workers' = workers (+) st.spawned
           /\ expanded' = st.expanded
    /\ UNCHANGED <<urls, maxDepth, web, pc, requestTokens, failed>>

\* The goroutine after its send on frontier was received: it returns.
AfterSend(w) == Worker("done", <<>>, w.depth, NoResp, <<>>, w.sent + 1)

\* links := <-frontier, the sender being a worker (line 374 or 382);
\* then the inner loop and the post statement n--
ReceiveWorker ==
    /\ pc = "loop"
    /\ n > 0
    /\ \E w \in WorkersAt("send") :
          LET st == Iterate(w.newLinks)
          IN  /\ visited' = st.visited
              /\ res' = st.res
              /\ n' = st.n - 1
              /\ workers' = ReplaceWorker(w, AfterSend(w)) (+) st.spawned
              /\ expanded' = st.expanded
    /\ UNCHANGED <<urls, maxDepth, web, pc, seedSent, requestTokens, failed>>

\* n > 0 is false: the loop ends and crawler returns res
Return ==
    /\ pc = "loop"
    /\ n = 0
    /\ pc' = "done"
    /\ UNCHANGED <<urls, maxDepth, web, seedSent, visited, res, n,
                   requestTokens, workers, failed, expanded>>

(***************************************************************************)
(* crawler: the worker goroutine, lines 367-383                            *)
(***************************************************************************)

\* the error path returning without a send on frontier
OnFetchErrorReturn(w) == Worker("done", <<>>, w.depth, NoResp, <<>>, w.sent)

\* if err != nil { frontier<- []Link{}; return }: the goroutine is at the send
OnFetchError(w) == Worker("send", <<>>, w.depth, NoResp, <<>>, w.sent)

\* the goroutine writing a fetched-mark of its own into visited
WorkerGetUrlMarking ==
    /\ \E w \in WorkersAt("getUrl") :
          LET r == getUrl(web, w.url)
          IN  IF r.err
              THEN /\ workers' = ReplaceWorker(w, OnFetchError(w))
                   /\ failed' = failed \cup {Link(w.url, <<>>, w.depth)}
              ELSE /\ workers' = ReplaceWorker(w,
                          Worker("acquire", <<>>, w.depth, r.resp, <<>>, w.sent))
                   /\ failed' = failed
    /\ visited' = visited \cup {<<"w">> \o w.url : w \in WorkersAt("getUrl")}
    /\ UNCHANGED <<urls, maxDepth, web, pc, seedSent, res, n,
                   requestTokens, expanded>>

\* resp, err := getUrl(link.url)
WorkerGetUrl ==
    /\ \E w \in WorkersAt("getUrl") :
          LET r == getUrl(web, w.url)
          IN  IF r.err
              THEN /\ workers' = ReplaceWorker(w, OnFetchError(w))
                   /\ failed' = failed \cup {Link(w.url, <<>>, w.depth)}
              ELSE /\ workers' = ReplaceWorker(w,
                          Worker("acquire", <<>>, w.depth, r.resp, <<>>, w.sent))
                   /\ failed' = failed
    /\ UNCHANGED <<urls, maxDepth, web, pc, seedSent, visited, res, n,
                   requestTokens, expanded>>

\* a buffer that takes one value more
CanSendOneMore(tokens) == tokens <= RequestTokensCap

\* A send on the buffered channel proceeds while the buffer is not full.
CanSend(tokens) == tokens < RequestTokensCap

\* requestTokens <- struct{}{}
WorkerAcquire ==
    /\ CanSend(requestTokens)
    /\ \E w \in WorkersAt("acquire") :
          workers' = ReplaceWorker(w, [w EXCEPT !.pc = "extract"])
    /\ requestTokens' = requestTokens + 1
    /\ UNCHANGED <<urls, maxDepth, web, pc, seedSent, visited, res, n, failed, expanded>>

\* the receive from requestTokens left out
ReleaseNone(tokens) == tokens

\* <-requestTokens
Release(tokens) == tokens - 1

\* newLinks := ExtractLinks(resp, link.depth + 1); <-requestTokens
WorkerExtract ==
    /\ requestTokens > 0
    /\ \E w \in WorkersAt("extract") :
          workers' = ReplaceWorker(w,
              Worker("send", <<>>, w.depth, NoResp,
                     ExtractLinks(w.resp.Body, w.depth + 1), w.sent))
    /\ requestTokens' = Release(requestTokens)
    /\ UNCHANGED <<urls, maxDepth, web, pc, seedSent, visited, res, n, failed, expanded>>

Next ==
    \/ ReceiveSeed
    \/ ReceiveWorker
    \/ Return
    \/ WorkerGetUrl
    \/ WorkerAcquire
    \/ WorkerExtract

(***************************************************************************)
(* the crawls checked: seed lists, depths and webs                         *)
(***************************************************************************)

\* <a href="href">text</a> as the tokenizer delivers it
Anchor(href, text) ==
    << Token(StartTagToken, "a", <<"a">>, <<Attribute("href", href)>>),
       Token(TextToken, "", text, <<>>),
       Token(EndTagToken, "a", <<"a">>, <<>>) >>

\* a page of anchors whose text is their href
RECURSIVE PageOf(_)
PageOf(hrefs) ==
    IF hrefs = <<>> THEN <<>> ELSE Anchor(Head(hrefs), Head(hrefs)) \o PageOf(Tail(hrefs))

\* s -> a, b;  a -> d;  d -> x;  b -> x, y;  x -> e: x is two hops from s
\* through b and three through a and d; y is two hops from s.
WebRace ==
    (<<"s">> :> Page(200, PageOf(<< <<"a">>, <<"b">> >>))) @@
    (<<"a">> :> Page(200, PageOf(<< <<"d">> >>))) @@
    (<<"b">> :> Page(200, PageOf(<< <<"x">>, <<"y">> >>))) @@
    (<<"d">> :> Page(200, PageOf(<< <<"x">> >>))) @@
    (<<"x">> :> Page(200, PageOf(<< <<"e">> >>))) @@
    (<<"e">> :> Page(200, <<>>)) @@
    (<<"y">> :> Page(200, <<>>))

\* s links to a (served), to f (no server: transport error), to g (served
\* with status 404 and a body that links to h), and holds anchors that are
\* not valid links: a javascript href, an empty text, a blank text, no href.
\* a links back to s, twice to c, and to itself with padded href and text.
WebMixed ==
    (<<"s">> :> Page(200,
        Anchor(<<"a">>, <<"A">>) \o
        Anchor(<<"f">>, <<"F">>) \o
        Anchor(<<"J","a","v","a","S","c","r","i","p","t",":">>, <<"j">>) \o
        Anchor(<<"g">>, <<"G">>) \o
        << Token(StartTagToken, "a", <<"a">>, <<Attribute("href", <<"k">>)>>),
           Token(EndTagToken, "a", <<"a">>, <<>>) >> \o
        Anchor(<<"k">>, <<" ", "\n">>) \o
        << Token(StartTagToken, "a", <<"a">>, <<Attribute("name", <<"k">>)>>),
           Token(TextToken, "", <<"K">>, <<>>),
           Token(EndTagToken, "a", <<"a">>, <<>>) >>)) @@
    (<<"a">> :> Page(200,
        Anchor(<<"s">>, <<"S">>) \o
        Anchor(<<"c">>, <<"C">>) \o
        Anchor(<<" ", "c">>, <<"C", "2">>) \o
        Anchor(<<"a", " ">>, <<" ", "A", " ">>))) @@
    (<<"g">> :> Page(404, Anchor(<<"h">>, <<"H">>))) @@
    (<<"c">> :> Page(200, <<>>)) @@
    (<<"h">> :> Page(200, <<>>))

\* p and q both link to z, q twice; q links to p as well
WebTwo ==
    (<<"p">> :> Page(200, PageOf(<< <<"z">> >>))) @@
    (<<"q">> :> Page(200, PageOf(<< <<"z">>, <<"z">>, <<"p">> >>))) @@
    (<<"z">> :> Page(200, <<>>))

Hub == <<"h","u","b">>

Kids == { <<"k", d>> : d \in {"0","1","2","3","4","5","6","7","8","9","a"} }

\* The hub links to eleven pages without links.
RECURSIVE PageOfSet(_)
PageOfSet(hrefs) ==
    IF hrefs = {}
    THEN <<>>
    ELSE LET h == CHOOSE x \in hrefs : TRUE
         IN  Anchor(h, h) \o PageOfSet(hrefs \ {h})

WebHub ==
    (Hub :> Page(200, PageOfSet(Kids))) @@
    [k \in Kids |-> Page(200, <<>>)]

\* the largest maxDepth crawled
MaxDepthBound == 4

Crawls ==
    { [urls |-> << <<"s">> >>, web |-> WebRace],
      [urls |-> << <<"s">> >>, web |-> WebMixed],
      [urls |-> << <<" ", "s">> >>, web |-> WebMixed],
      [urls |-> << <<"p">>, <<"q">> >>, web |-> WebTwo],
      [urls |-> << <<"q">>, <<"q", " ">> >>, web |-> WebTwo] }

Start(crawl, depth) ==
    /\ urls = crawl.urls
    /\ web = crawl.web
    /\ maxDepth = depth
    /\ pc = "loop"
    /\ seedSent = FALSE
    /\ visited = {}
    /\ res = <<>>
    /\ n = Len(crawl.urls)
    /\ requestTokens = 0
    /\ workers = EmptyBag
    /\ failed = {}
    /\ expanded = <<>>

Init == \E crawl \in Crawls, depth \in 0..MaxDepthBound : Start(crawl, depth)

Spec == Init /\ [][Next]_vars

\* the depth of the crawl of the hub: its eleven pages are fetched
HubDepth == 2

InitCeiling == Start([urls |-> <<Hub>>, web |-> WebHub], HubDepth)

SpecCeiling == InitCeiling /\ [][Next]_vars

(***************************************************************************)
(* ExtractLinks on every short document: one seed whose page is any        *)
(* sequence of at most MaxTokens of the tokens below, crawled to depth 1.  *)
(***************************************************************************)

\* the longest document
MaxTokens == 5

\* <a href="u">, <a href="v">, <a>, </a>, the text "x", the text " y"
DocTokens ==
    { Token(StartTagToken, "a", <<"a">>, <<Attribute("href", <<"u">>)>>),
      Token(StartTagToken, "a", <<"a">>, <<Attribute("href", <<"v">>)>>),
      Token(StartTagToken, "a", <<"a">>, <<>>),
      Token(EndTagToken, "a", <<"a">>, <<>>),
      Token(TextToken, "", <<"x">>, <<>>),
      Token(TextToken, "", <<" ", "y">>, <<>>) }

Docs == UNION {[1..k -> DocTokens] : k \in 0..MaxTokens}

DocUrl == <<"d","o","c">>

InitExtract ==
    \E doc \in Docs : Start([urls |-> <<DocUrl>>, web |-> (DocUrl :> Page(200, doc))], 1)

SpecExtract == InitExtract /\ [][Next]_vars

(***************************************************************************)
(* the link graph of a crawl, for the statements below                     *)
(***************************************************************************)

ResultUrls == {res[i].url : i \in 1..Len(res)}

SeedUrls == {TrimSpace(urls[i]) : i \in 1..Len(urls)}

\* the urls the page at u links to, as a worker would extract them
LinksOf(u) ==
    LET r == getUrl(web, u)
    IN  IF r.err THEN {} ELSE {l.url : l \in Range(ExtractLinks(r.resp.Body, 1))}

\* the urls at most k links away from a seed
RECURSIVE Within(_)
Within(k) ==
    IF k = 0
    THEN SeedUrls
    ELSE LET near == Within(k - 1)
         IN  near \cup UNION {LinksOf(u) : u \in near}

\* the hop count of u from the nearest seed
Dist(u) == CHOOSE k \in 0..(Cardinality(DOMAIN web) + 1) :
               u \in Within(k) /\ \A j \in 0..(k - 1) : u \notin Within(j)

\* every page is served with a success status and links to served pages only
EveryFetchSucceeds ==
    \A u \in DOMAIN web :
        /\ ~web[u].err
        /\ web[u].StatusCode <= 299
        /\ LinksOf(u) \subseteq DOMAIN web

AllWorkers == BagToSet(workers)

\* The loop waits at `links := <-frontier` and no sender is left: the seed
\* batch was received and every worker has returned.
BlockedOnReceive ==
    /\ pc = "loop"
    /\ n > 0
    /\ seedSent
    /\ \A w \in AllWorkers : w.pc = "done"

(***************************************************************************)
(* C1  Termination: the crawler never stays blocked on a receive from the  *)
(* frontier that no goroutine will send to.                                *)
(* Fails: n starts at len(urls) and the seed goroutine sends one batch.    *)
(***************************************************************************)
C1_NeverBlocked == ~BlockedOnReceive

(***************************************************************************)
(* C2  Completeness: when every fetch succeeds and the crawl has returned, *)
(* the urls of the result are the urls within maxDepth links of the seeds. *)
(* Fails: a batch that arrives first can bring a url one level too deep,   *)
(* at maxDepth, and its links are then never fetched.                      *)
(***************************************************************************)
C2_Complete ==
    (pc = "done" /\ EveryFetchSucceeds) => ResultUrls = Within(maxDepth)

(***************************************************************************)
(* C3  Depth annotation: the depth of every link of the result is its hop  *)
(* count from the nearest seed.                                            *)
(* Fails: the depth is that of the batch received first.                   *)
(***************************************************************************)
C3_DepthIsDistance ==
    \A i \in 1..Len(res) : res[i].depth = Dist(res[i].url)

(***************************************************************************)
(* C4  Depth bound: no link of the result has a depth above maxDepth.      *)
(***************************************************************************)
C4_DepthBound == \A i \in 1..Len(res) : res[i].depth <= maxDepth

\* the crawl has returned with a link at maxDepth > 0 whose page has links
C4_Witness ==
    /\ pc = "done"
    /\ maxDepth > 0
    /\ \E i \in 1..Len(res) : res[i].depth = maxDepth /\ LinksOf(res[i].url) # {}

(***************************************************************************)
(* C5  Dedup: no two entries of the result share a url.                    *)
(***************************************************************************)
C5_Dedup ==
    \A i, j \in 1..Len(res) : i # j => res[i].url # res[j].url

\* The seed list names one url twice, that url's page names a url twice,
\* and two pages that were both fetched and received link to one url.
C5_Witness ==
    /\ \E i, j \in 1..Len(urls) : i # j /\ TrimSpace(urls[i]) = TrimSpace(urls[j])
    /\ maxDepth >= 2
    /\ seedSent
    /\ AllWorkers # {}
    /\ \A w \in AllWorkers : w.pc = "done"
    /\ \E u, v \in ResultUrls : u # v /\ LinksOf(u) \cap LinksOf(v) # {}

(***************************************************************************)
(* C6  Failed fetch, as the claim states it: the url of a non-seed link    *)
(* whose fetch returned an error is not in the returned result.            *)
(***************************************************************************)
C6_FailedNotInResult ==
    pc = "done" =>
        \A l \in failed : l.depth > 0 => l.url \notin ResultUrls

(***************************************************************************)
(* C6  amended: the link whose fetch returned an error stays in the result *)
(* at the depth it was accepted at (it was appended before the fetch);     *)
(* when the crawl has returned, every link of every batch, the failed      *)
(* link's batch included, has been accepted; and the failure does not stop *)
(* a crawl from one seed (a crawl from several seeds blocks whether or not *)
(* a fetch fails, C1).                                                     *)
(***************************************************************************)
C6_FailedFetchKept ==
    /\ \A l \in failed :
          \E i \in 1..Len(res) : res[i].url = l.url /\ res[i].depth = l.depth
    /\ pc = "done" =>
          \A i \in 1..Len(res) :
              res[i].depth < maxDepth => LinksOf(res[i].url) \subseteq ResultUrls
    /\ Len(urls) = 1 => ~BlockedOnReceive

\* the crawl has returned, a link of depth 1 failed to fetch, and a link of
\* the same batch was fetched and its links accepted
C6_Witness ==
    /\ pc = "done"
    /\ \E l \in failed :
          /\ l.depth = 1
          /\ \E i \in 1..Len(res) :
                /\ res[i].depth = 1
                /\ res[i].url # l.url
                /\ LinksOf(res[i].url) # {}
                /\ LinksOf(res[i].url) \subseteq ResultUrls

(***************************************************************************)
(* C7  Non-success status: a response with a status above 299 is an error  *)
(* of getUrl, so no worker goes on to the semaphore and ExtractLinks with  *)
(* such a response.                                                        *)
(* Fails: getUrl logs the HttpGetError and returns err == nil.             *)
(***************************************************************************)
C7_StatusIsError ==
    \A w \in AllWorkers :
        w.pc \in {"acquire", "extract"} => w.resp.StatusCode <= 299

(***************************************************************************)
(* C8  Concurrency ceiling: at most 10 workers are between acquiring and   *)
(* releasing requestTokens, that is, inside ExtractLinks.                  *)
(***************************************************************************)
C8_Ceiling == CountAt("extract") <= 10

\* ten workers hold a token and an eleventh waits for one
C8_Witness == CountAt("extract") = 10 /\ CountAt("acquire") >= 1

(***************************************************************************)
(* C9  Single emission: a worker that has returned has sent exactly one    *)
(* batch on frontier and a worker that has not returned has sent none; a   *)
(* worker at its send finds the loop receiving; when the crawler has       *)
(* returned, every worker has.                                             *)
(***************************************************************************)
C9_SingleEmission ==
    /\ \A w \in AllWorkers : w.sent = (IF w.pc = "done" THEN 1 ELSE 0)
    /\ \A w \in AllWorkers : w.pc = "send" => (pc = "loop" /\ n > 0)
    /\ pc = "done" => \A w \in AllWorkers : w.pc = "done"

\* The crawl has returned after a fetch error and a successful fetch.
C9_Witness ==
    /\ pc = "done"
    /\ failed # {}
    /\ \E i \in 1..Len(res) : res[i].depth > 0 /\ LinksOf(res[i].url) # {}

(***************************************************************************)
(* C10  Validity of results: every link of the result is a seed link or    *)
(* has a non-empty text and url without surrounding white space and a url  *)
(* that does not contain "javascript" in any letter case; every batch      *)
(* ExtractLinks hands to a worker holds such links only.                   *)
(***************************************************************************)
WellFormed(link) ==
    /\ link.text # <<>>
    /\ link.text[1] \notin Whitespace /\ link.text[Len(link.text)] \notin Whitespace
    /\ link.url # <<>>
    /\ link.url[1] \notin Whitespace /\ link.url[Len(link.url)] \notin Whitespace
    /\ \A i \in 1..Len(link.url) :
          i + 9 <= Len(link.url) =>
              \E k \in 0..9 : LowerCh(link.url[i + k]) # Javascript[k + 1]

C10_ValidResults ==
    /\ \A i \in 1..Len(res) :
          \/ res[i].depth = 0 /\ res[i] \in Range(InitialLinks(urls))
          \/ WellFormed(res[i])
    /\ \A w \in AllWorkers : \A l \in Range(w.newLinks) : WellFormed(l)

\* The crawl has returned with a seed link that is not well formed and with
\* a link from a page that holds an anchor with a javascript href.
C10_Witness ==
    /\ pc = "done"
    /\ \E i \in 1..Len(res) : res[i].depth = 0 /\ ~WellFormed(res[i])
    /\ \E i, j \in 1..Len(res) :
          /\ res[j].depth = res[i].depth + 1
          /\ res[j].url \in LinksOf(res[i].url)
          /\ \E t \in Range(web[res[i].url].Body) :
                \E a \in Range(t.Attr) : Contains(ToLower(a.Val), Javascript)

(***************************************************************************)
(* a document by positions, for the statements about ExtractLinks          *)
(***************************************************************************)

\* the page of the first seed, and the batches extracted and not yet received
Doc == web[TrimSpace(urls[1])].Body

Batches == {w.newLinks : w \in WorkersAt("send")}

MaxOf(S) == CHOOSE x \in S : \A y \in S : y <= x
MinOf(S) == CHOOSE x \in S : \A y \in S : x <= y

IsStart(doc, i) ==
    doc[i].DataAtom = "a" /\ doc[i].Type = StartTagToken /\ doc[i].Attr # <<>>

IsEnd(doc, j) == doc[j].DataAtom = "a" /\ doc[j].Type = EndTagToken

IsText(doc, i) == doc[i].Type = TextToken

\* the anchor start tags with attributes since the anchor end tag before j
Opens(doc, j) ==
    LET ends == {k \in 1..(j - 1) : IsEnd(doc, k)}
        from == IF ends = {} THEN 1 ELSE MaxOf(ends) + 1
    IN  {i \in from..(j - 1) : IsStart(doc, i)}

\* the first anchor end tag with no start tag open, or the end of the document
StopAt(doc) ==
    MinOf({j \in 1..Len(doc) : IsEnd(doc, j) /\ Opens(doc, j) = {}}
          \cup {Len(doc) + 1})

\* the text tokens strictly between positions i and j, concatenated
RECURSIVE TextBetween(_, _, _)
TextBetween(doc, i, j) ==
    IF i + 1 >= j
    THEN <<>>
    ELSE (IF IsText(doc, i + 1) THEN doc[i + 1].Data ELSE <<>>)
         \o TextBetween(doc, i + 1, j)

\* the value of the last href attribute of a tag, trimmed
Href(tag) ==
    LET hs == {k \in 1..Len(tag.Attr) : tag.Attr[k].Key = "href"}
    IN  IF hs = {} THEN <<>> ELSE TrimSpace(tag.Attr[MaxOf(hs)].Val)

\* The link of the anchor closed at j: its url from the latest start tag
\* open, its text from the text tokens after position `from`.
AnchorLink(doc, j, from, depth) ==
    Link(Href(doc[MaxOf(Opens(doc, j))]), TrimSpace(TextBetween(doc, from, j)), depth)

Acceptable(link) ==
    link.text # <<>> /\ link.url # <<>> /\ ~Contains(ToLower(link.url), Javascript)

\* The acceptable links of the anchors closed at j, j+1, ... before the
\* document stops, each with the text after its own (latest) start tag if
\* own, and after the first start tag open otherwise.
RECURSIVE LinksFrom(_, _, _, _)
LinksFrom(doc, j, depth, own) ==
    IF j >= StopAt(doc)
    THEN <<>>
    ELSE LET from == IF own THEN MaxOf(Opens(doc, j)) ELSE MinOf(Opens(doc, j))
             here == IF IsEnd(doc, j) /\ Acceptable(AnchorLink(doc, j, from, depth))
                     THEN <<AnchorLink(doc, j, from, depth)>>
                     ELSE <<>>
         IN  here \o LinksFrom(doc, j + 1, depth, own)

\* the anchor end tags reached with two or more start tags open
NestedEnds(doc) ==
    {j \in 1..(StopAt(doc) - 1) : IsEnd(doc, j) /\ Cardinality(Opens(doc, j)) >= 2}

(***************************************************************************)
(* C11  Malformed anchor markup, as the claim states it: after an anchor   *)
(* end tag with no start held, extraction goes on, and the link of every   *)
(* well-formed valid anchor that follows is in the batch.                  *)
(***************************************************************************)
C11_ContinuesAfterOrphan ==
    \A batch \in Batches :
        \A i \in (StopAt(Doc) + 1)..(Len(Doc) - 2) :
            (/\ IsStart(Doc, i) /\ IsText(Doc, i + 1) /\ IsEnd(Doc, i + 2)
             /\ Acceptable(AnchorLink(Doc, i + 2, i, 1)))
            => AnchorLink(Doc, i + 2, i, 1) \in Range(batch)

(***************************************************************************)
(* C11  amended: when ExtractLinks meets an anchor end tag while no anchor *)
(* start is held, it logs a warning and returns at once: the batch is the  *)
(* links of the document up to that end tag, and no anchor that follows    *)
(* the end tag adds a link.                                                *)
(***************************************************************************)
C11_ReturnsAtOrphan ==
    \A batch \in Batches :
        StopAt(Doc) <= Len(Doc)
        => batch = ExtractLinks(SubSeq(Doc, 1, StopAt(Doc) - 1), 1)

\* the document starts with an anchor end tag that a well-formed valid
\* anchor follows, and the batch extracted from it is empty
C11_Witness ==
    /\ Len(Doc) = 4
    /\ StopAt(Doc) = 1
    /\ IsStart(Doc, 2) /\ IsText(Doc, 3) /\ IsEnd(Doc, 4)
    /\ Acceptable(AnchorLink(SubSeq(Doc, 2, 4), 3, 1, 1))
    /\ Batches = {<<>>}

(***************************************************************************)
(* C17  Anchor text pairing, as the claim states it: the batch is the      *)
(* acceptable links of the closed anchors in order, the text of each being *)
(* the trimmed concatenation of the text tokens between that anchor's own  *)
(* start tag (the one its url comes from) and its end tag.                 *)
(***************************************************************************)
C17_TextOfOwnAnchor ==
    \A batch \in Batches : batch = LinksFrom(Doc, 1, 1, TRUE)

(***************************************************************************)
(* C17  amended: the text of each emitted link is the trimmed              *)
(* concatenation, in order, of exactly the text tokens between the first   *)
(* anchor start tag with attributes that follows the previous anchor end   *)
(* tag (or the start of the document) and the link's end tag; that is the  *)
(* anchor's own start tag unless another one follows it before the end     *)
(* tag.  After an anchor end tag start and text are cleared: text outside  *)
(* an open anchor and text of an earlier anchor are in no later link.      *)
(***************************************************************************)
C17_TextSinceFirstStart ==
    \A batch \in Batches : batch = LinksFrom(Doc, 1, 1, FALSE)

\* a text token before the anchor, two text tokens inside it, one link out
C17_Witness ==
    /\ Len(Doc) = 5
    /\ IsText(Doc, 1) /\ IsStart(Doc, 2) /\ IsText(Doc, 3) /\ IsText(Doc, 4)
    /\ Doc[3] # Doc[4]
    /\ IsEnd(Doc, 5)
    /\ Batches = {<<Link(Href(Doc[2]), TrimSpace(Doc[3].Data \o Doc[4].Data), 1)>>}

(***************************************************************************)
(* C18  Nested anchors, as the claim states it: the link emitted at the    *)
(* end tag takes its url from the inner start tag and its text only from   *)
(* the text tokens that follow the inner start tag.                        *)
(***************************************************************************)
C18_InnerTextOnly ==
    \A batch \in Batches :
        \A j \in NestedEnds(Doc) :
            LET inner == AnchorLink(Doc, j, MaxOf(Opens(Doc, j)), 1)
                whole == AnchorLink(Doc, j, MinOf(Opens(Doc, j)), 1)
            IN  /\ Acceptable(inner) => inner \in Range(batch)
                /\ whole # inner => whole \notin Range(batch)

(***************************************************************************)
(* C18  amended: when an anchor start tag with attributes arrives while an *)
(* anchor is open, the new tag replaces the held start and the text buffer *)
(* is kept: the link emitted at the next anchor end tag takes its url from *)
(* the inner tag's href and its text from all the text tokens since the    *)
(* outer start tag, those before the inner start tag included.             *)
(***************************************************************************)
C18_InnerUrlWholeText ==
    \A batch \in Batches :
        \A j \in NestedEnds(Doc) :
            LET whole == AnchorLink(Doc, j, MinOf(Opens(Doc, j)), 1)
            IN  /\ Acceptable(whole) => whole \in Range(batch)
                /\ \A l \in Range(batch) :
                      l.url # whole.url
                      => \E k \in 1..(StopAt(Doc) - 1) :
                            k # j /\ IsEnd(Doc, k)
                            /\ l.url = Href(Doc[MaxOf(Opens(Doc, k))])

\* <a href=u> text <a href=v> text </a> with two hrefs: one link, the
\* inner url with both texts
C18_Witness ==
    /\ Len(Doc) = 5
    /\ IsStart(Doc, 1) /\ IsText(Doc, 2) /\ IsStart(Doc, 3) /\ IsText(Doc, 4)
    /\ IsEnd(Doc, 5)
    /\ Href(Doc[1]) # Href(Doc[3])
    /\ Batches = {<<Link(Href(Doc[3]), TrimSpace(Doc[2].Data \o Doc[4].Data), 1)>>}

(***************************************************************************)
(* C12  Zero depth: with maxDepth = 0 no worker is ever started, n is      *)
(* never incremented, and the result is the distinct seed links, depth 0.  *)
(***************************************************************************)
C12_ZeroDepth ==
    maxDepth = 0 =>
        /\ workers = EmptyBag
        /\ expanded = <<>>
        /\ n = Len(urls) - (IF seedSent THEN 1 ELSE 0)
        /\ \A i \in 1..Len(res) :
              res[i].depth = 0 /\ res[i] \in Range(InitialLinks(urls))
        /\ \A i, j \in 1..Len(res) : i # j => res[i].url # res[j].url
        /\ seedSent => ResultUrls = SeedUrls

\* the crawl of a seed whose page has links has returned with maxDepth = 0
C12_Witness ==
    /\ maxDepth = 0
    /\ pc = "done"
    /\ \E i \in 1..Len(res) : LinksOf(res[i].url) # {}

(***************************************************************************)
(* C13  Pending counter: at the loop condition n is the number of batches  *)
(* not yet received: 1 for the seed batch until it is received, plus the   *)
(* workers that have not completed their send.                             *)
(* Fails for a seed list of two or more: n starts at len(urls).            *)
(***************************************************************************)
C13_PendingCount ==
    pc = "loop" =>
        n = (IF seedSent THEN 0 ELSE 1)
            + (BagCardinality(workers) - CountAt("done"))

(***************************************************************************)
(* C14  Breadth-first expansion order: once a worker is started for a link *)
(* of depth d+1, no link of depth d is accepted any more.                  *)
(* Fails: batches are received in the order the workers finish.            *)
(***************************************************************************)
C14_LevelOrder ==
    \A k \in 1..Len(expanded) :
        \A j \in (expanded[k].at + 1)..Len(res) :
            res[j].depth # expanded[k].link.depth - 1

C16_SingleWriter ==
    [][ <<visited, res, n>>' # <<visited, res, n>>
        => /\ pc = "loop" /\ n > 0
           /\ \/ ~seedSent /\ seedSent'
              \/ CountAt("send") > 0 /\ CountAt("done")' = CountAt("done") + 1
           /\ requestTokens' = requestTokens
           /\ failed' = failed
           /\ CountAt("getUrl")' >= CountAt("getUrl")
      ]_vars

\* workers have fetched, extracted and delivered, and the result has grown
C16_Witness ==
    /\ CountAt("done") >= 2
    /\ CountAt("extract") >= 1
    /\ failed # {}
    /\ Len(res) >= 3

(***************************************************************************)
(* C19  Fetch at most once: a worker is started for a link exactly when    *)
(* the link is appended to the result and its depth differs from maxDepth; *)
(* no url gets two workers, and the workers ever started are as many as    *)
(* the result entries with depth < maxDepth.                               *)
(***************************************************************************)
C19_FetchOnce ==
    /\ [k \in 1..Len(expanded) |-> expanded[k].link]
          = SelectSeq(res, LAMBDA l : l.depth # maxDepth)
    /\ \A k \in 1..Len(expanded) : res[expanded[k].at] = expanded[k].link
    /\ \A k, m \in 1..Len(expanded) :
          k # m => expanded[k].link.url # expanded[m].link.url
    /\ BagCardinality(workers) = Len(expanded)
    /\ BagCardinality(workers)
          = Cardinality({i \in 1..Len(res) : res[i].depth < maxDepth})

\* The crawl has returned; a page fetched links back to a url accepted
\* before it, and the result holds links at maxDepth and below it.
C19_Witness ==
    /\ pc = "done"
    /\ Len(expanded) >= 2
    /\ \E i \in 1..Len(res) : res[i].depth = maxDepth
    /\ \E i, j \in 1..Len(res) :
          i < j /\ res[j].depth < maxDepth /\ res[i].url \in LinksOf(res[j].url)

(***************************************************************************)
(* C20  Discovery tree: every result entry of depth d > 0 comes after an   *)
(* entry of depth d-1 whose page was fetched and holds that link; and the  *)
(* urls of the result are the keys of visited.                             *)
(***************************************************************************)
C20_DiscoveryTree ==
    /\ \A j \in 1..Len(res) :
          res[j].depth > 0 =>
              \E i \in 1..(j - 1) :
                  /\ res[i].depth = res[j].depth - 1
                  /\ ~getUrl(web, res[i].url).err
                  /\ res[j] \in Range(ExtractLinks(getUrl(web, res[i].url).resp.Body,
                                                   res[j].depth))
    /\ ResultUrls = visited

\* the crawl has returned with a link two levels below a seed
C20_Witness ==
    /\ pc = "done"
    /\ \E j \in 1..Len(res) : res[j].depth = 2

====
